---- MODULE Spec2Model ----
(***************************************************************************)
(* Model of the nx-request-handler request engine: the dispatch loop of    *)
(* RequestEngine::start (src/src/lib.rs), the per-call MessageContext and  *)
(* its chunked response encoder (src/src/message.rs).                      *)
(*                                                                         *)
(* Strings are sequences of one-character strings.  Option<T> values are   *)
(* sequences of length 0 (None) or 1 (Some(x)).  Fractions (f64) are       *)
(* integers counting hundredths.                                           *)
(***************************************************************************)
EXTENDS Integers, Sequences, FiniteSets, TLC

VARIABLES pc, is_exit, handlers, session, ctx, hpc, progress_calls,
          orig_message, is_ok, message, index, sent, invoked,
          inbound, handler, result, registered

vars == <<pc, is_exit, handlers, session, ctx, hpc, progress_calls,
          orig_message, is_ok, message, index, sent, invoked,
          inbound, handler, result, registered>>

-----------------------------------------------------------------------------
(* Bounds of the model *)

\* chunk size of the encoder, scaled down from the 25000 of message.rs:113;
\* it stays above the length of the engine's own error texts and above the
\* threshold of the boundary extension, as 25000 is
CHUNK_SIZE == 60

\* longest tail, over the whole alphabet, of the results the encoder
\* specification enumerates
MaxLen == 4

\* most progress notifications one handler execution sends
MaxProgress == 2

\* most arguments an inbound message carries
MaxArgs == 2

\* longest handler result, over the whole alphabet, of the single-call
\* specification
MaxEsc == 2

-----------------------------------------------------------------------------
(* Characters and strings *)

BS == "\\"

DQ == "\""

SP == " "

TAB == "\t"

CR == "\r"

LF == "\n"

NUL == "NUL"

None == <<>>

Some(x) == <<x>>

Last(s) == s[Len(s)]

Front(s) == SubSeq(s, 1, Len(s) - 1)

RECURSIVE Concat(_)
Concat(ss) == IF ss = <<>> THEN <<>> ELSE Head(ss) \o Concat(Tail(ss))

\* str::replace for a one-character pattern
RECURSIVE replace(_, _, _)
replace(s, from, to) ==
    IF s = <<>> THEN <<>>
    ELSE (IF Head(s) = from THEN to ELSE <<Head(s)>>) \o replace(Tail(s), from, to)

\* char::is_whitespace on the characters of the model
is_whitespace(c) == c \in {SP, TAB, CR, LF}

RECURSIVE trim_start(_)
trim_start(s) ==
    IF s # <<>> /\ is_whitespace(Head(s)) THEN trim_start(Tail(s)) ELSE s

RECURSIVE trim_end(_)
trim_end(s) ==
    IF s # <<>> /\ is_whitespace(Last(s)) THEN trim_end(Front(s)) ELSE s

trim(s) == trim_end(trim_start(s))

\* cleaned_message with the quotes replaced before the backslashes
cleaned_message_quote_first(s) ==
    replace(replace(replace(replace(replace(s,
        CR, <<>>), NUL, <<>>), DQ, <<BS, DQ>>), BS, <<BS, BS>>),
        TAB, <<SP, SP, SP, SP>>)

\* the chain of replace calls of return_result and send_progress
cleaned_message(s) ==
    replace(replace(replace(replace(replace(s,
        CR, <<>>), NUL, <<>>), BS, <<BS, BS>>), DQ, <<BS, DQ>>),
        TAB, <<SP, SP, SP, SP>>)

\* the string return_result cuts into chunks
escaped(s) == trim(cleaned_message(s))

-----------------------------------------------------------------------------
(* The chunk boundary of return_result *)

\* slice.len() > 5 guards the boundary extension
MinExtendLen == 5

\* The inner while loop.  chars is what the backward iterator created over
\* the first slice still holds; it is never rebuilt when the slice grows.
\* The result is [panic, end_index]: panic when the iterator is exhausted
\* (unwrap on None) or the grown slice leaves the string.
RECURSIVE extend(_, _, _, _)
extend(msg, idx, end_index, chars) ==
    LET stop == [panic |-> FALSE, end_index |-> end_index]
        abort == [panic |-> TRUE, end_index |-> end_index]
        grow(rest) == IF end_index + 1 > Len(msg) THEN abort
                      ELSE extend(msg, idx, end_index + 1, rest)
    IN  IF ~(end_index - idx > MinExtendLen) THEN stop
        ELSE IF chars = <<>> THEN abort
        ELSE IF Last(chars) = BS THEN grow(Front(chars))
        ELSE IF Front(chars) = <<>> THEN abort
        ELSE IF Last(Front(chars)) = BS THEN grow(Front(Front(chars)))
        ELSE stop

min(a, b) == IF a < b THEN a ELSE b

\* candidate_end with an off-by-one chunk size
candidate_end_off_by_one(msg, idx) == min(idx + CHUNK_SIZE + 1, Len(msg))

\* first candidate boundary of the chunk starting at idx
candidate_end(msg, idx) == min(idx + CHUNK_SIZE, Len(msg))

\* boundary of the chunk starting at idx, or a panic
chunk_end(msg, idx) ==
    extend(msg, idx, candidate_end(msg, idx),
           SubSeq(msg, idx + 1, candidate_end(msg, idx)))

-----------------------------------------------------------------------------
(* Progress records and their serialisation *)

\* Progress::new clamps the fraction into [0.0, 1.0] (hundredths: 0..100)
max(a, b) == IF a > b THEN a ELSE b

Progress_new(title, info, progress) ==
    [title |-> title, info |-> info, progress |-> min(max(progress, 0), 100)]

Digit(d) == CASE d = 0 -> "0" [] d = 1 -> "1" [] d = 2 -> "2" [] d = 3 -> "3"
              [] d = 4 -> "4" [] d = 5 -> "5" [] d = 6 -> "6" [] d = 7 -> "7"
              [] d = 8 -> "8" [] d = 9 -> "9"

RECURSIVE Decimal(_)
Decimal(n) == IF n < 10 THEN <<Digit(n)>> ELSE Decimal(n \div 10) \o <<Digit(n % 10)>>

\* serde_json's rendering of an f64 given in hundredths (0.25, 0.5, 1.0, 50.0)
f64_to_json(h) ==
    LET a == IF h < 0 THEN 0 - h ELSE h
        frac == a % 100
        fracs == IF frac % 10 = 0 THEN <<Digit(frac \div 10)>>
                 ELSE <<Digit(frac \div 10), Digit(frac % 10)>>
    IN  (IF h < 0 THEN <<"-">> ELSE <<>>) \o Decimal(a \div 100) \o <<".">> \o fracs

\* serde_json's rendering of the characters of a string field
json_char(c) ==
    CASE c = DQ  -> <<BS, DQ>>
      [] c = BS  -> <<BS, BS>>
      [] c = TAB -> <<BS, "t">>
      [] c = CR  -> <<BS, "r">>
      [] c = LF  -> <<BS, "n">>
      [] c = NUL -> <<BS, "u", "0", "0", "0", "0">>
      [] OTHER   -> <<c>>

RECURSIVE json_chars(_)
json_chars(s) == IF s = <<>> THEN <<>> ELSE json_char(Head(s)) \o json_chars(Tail(s))

json_string(s) == <<DQ>> \o json_chars(s) \o <<DQ>>

\* serde_json::to_string(&progress)
progress_to_json(p) ==
    <<"{">> \o json_string(<<"t", "i", "t", "l", "e">>) \o <<":">> \o json_string(p.title)
    \o <<",">> \o json_string(<<"i", "n", "f", "o">>) \o <<":">> \o json_string(p.info)
    \o <<",">> \o json_string(<<"p", "r", "o", "g", "r", "e", "s", "s">>) \o <<":">>
    \o f64_to_json(p.progress) \o <<"}">>

-----------------------------------------------------------------------------
(* Inputs *)

Hi == <<"h", "i">>

RECURSIVE Repeat(_, _)
Repeat(c, n) == IF n = 0 THEN <<>> ELSE <<c>> \o Repeat(c, n - 1)

\* a result whose escaped form ends in backslash-quote
EndsInQuote == <<"a", "a", "a", "a", DQ>>

\* a result longer than one chunk, without any escape
LongPlain == Repeat("a", CHUNK_SIZE + 2)

\* the strings the handlers of the engine specification return
ResultStrings == {<<>>, Hi, LongPlain, EndsInQuote}

Echo == <<"e", "c", "h", "o">>

Quoted == <<"q", DQ>>

CallNames == {Echo, Quoted}

Ids == {"1", "2"}

Callbacks == {"h1"}

ArgCounts == {None, Some(0), Some(1)}

RECURSIVE SeqsUpTo(_, _)
SeqsUpTo(S, n) ==
    IF n = 0 THEN {<<>>}
    ELSE LET shorter == SeqsUpTo(S, n - 1)
         IN  shorter \cup {Append(q, x) : q \in shorter, x \in S}

Arguments == {None} \cup {Some(a) : a \in SeqsUpTo({Hi}, MaxArgs)}

\* the payloads that deserialize into a Message
Messages == [id : Ids, call_name : CallNames, arguments : Arguments]

\* raw fractions handlers build Progress values from (hundredths)
RawFractions == {25, 75}

\* the payload length up to which a payload that fails to deserialize is
\* logged whole, and the byte index it is cut at beyond that
TruncateLimit == 300

TruncateAt == 299

\* A payload that deserializes into the Message m
payload_of(m) == [kind |-> "message", message |-> m]

\* The payloads that do not deserialize: what start() reads of them is
\* their length in bytes and whether byte TruncateAt starts a character
MalformedPayloads ==
    [kind : {"malformed"}, len : {0, TruncateLimit, TruncateLimit + 1},
     is_char_boundary : BOOLEAN]

ProgressTitle == <<"T">>

ProgressInfo == <<"i">>

-----------------------------------------------------------------------------
(* Envelopes *)

\* OkOrErrorResponse of return_result
OkOrErrorResponse(id, ok, msg, more) ==
    [kind |-> "result", id |-> id, ok |-> ok, message |-> msg, more |-> more]

\* StringResponse of send_progress
StringResponse(id, msg, more) ==
    [kind |-> "progress", id |-> id, message |-> msg, more |-> more]

IncorrectArgs(call_name) ==
    <<"I", "n", "c", "o", "r", "r", "e", "c", "t", " ", "n", "u", "m", "b", "e", "r",
      " ", "o", "f", " ", "a", "r", "g", "u", "m", "e", "n", "t", "s", " ", "w", "e",
      "r", "e", " ", "p", "r", "o", "v", "i", "d", "e", "d", " ", "f", "o", "r", " ">>
    \o call_name

NoArgs(call_name) ==
    <<"N", "o", " ", "a", "r", "g", "u", "m", "e", "n", "t", "s", " ", "w", "e", "r",
      "e", " ", "p", "r", "o", "v", "i", "d", "e", "d", " ", "f", "o", "r", " ">>
    \o call_name

-----------------------------------------------------------------------------
(* State *)

\* pc         position of the thread that owns the engine: "setup" (before
\*            start), "listening", "executing" (inside the callback),
\*            "responding" (inside return_result), "returned" (start() has
\*            returned), "panicked" (the thread unwound out of start())
\* hpc        position of the callback: "run", or inside shutdown()
\*            "wait_for_exit" / "mark"
\* ctx        Option<MessageContext> of the current loop iteration
\* session    state of the WebSession: "open", "closing", "closed"
\* orig_message, is_ok, message, index   parameters and locals of return_result
\* sent       what was handed to session.send since the last recv_max
\* invoked    whether the callback was run for the last received message
\* progress_calls   the Progress values the callback of the current call
\*            passed to send_progress, in call order

Ping == <<"p", "i", "n", "g">>

\* the registrations of default_handlers::register_defaults, in call order;
\* each closure is named after its call name
DefaultHandlers ==
    <<
        [call_name |-> <<"p", "i", "n", "g">>,
         arg_count |-> Some(0), callback |-> "ping"],
        [call_name |-> <<"r", "e", "a", "d", "_", "f", "i", "l", "e">>,
         arg_count |-> Some(1), callback |-> "read_file"],
        [call_name |-> <<"d", "o", "w", "n", "l", "o", "a", "d", "_", "f", "i", "l", "e">>,
         arg_count |-> Some(2), callback |-> "download_file"],
        [call_name |-> <<"d", "e", "l", "e", "t", "e", "_", "f", "i", "l", "e">>,
         arg_count |-> Some(1), callback |-> "delete_file"],
        [call_name |-> <<"w", "r", "i", "t", "e", "_", "f", "i", "l", "e">>,
         arg_count |-> Some(2), callback |-> "write_file"],
        [call_name |-> <<"g", "e", "t", "_", "m", "d", "5">>,
         arg_count |-> Some(1), callback |-> "get_md5"],
        [call_name |-> <<"u", "n", "z", "i", "p">>,
         arg_count |-> Some(2), callback |-> "unzip"],
        [call_name |-> <<"f", "i", "l", "e", "_", "e", "x", "i", "s", "t", "s">>,
         arg_count |-> Some(1), callback |-> "file_exists"],
        [call_name |-> <<"d", "i", "r", "_", "e", "x", "i", "s", "t", "s">>,
         arg_count |-> Some(1), callback |-> "dir_exists"],
        [call_name |-> <<"l", "i", "s", "t", "_", "a", "l", "l", "_", "f", "i", "l", "e", "s">>,
         arg_count |-> Some(1), callback |-> "list_all_files"],
        [call_name |-> <<"l", "i", "s", "t", "_", "d", "i", "r">>,
         arg_count |-> Some(1), callback |-> "list_dir"],
        [call_name |-> <<"g", "e", "t", "_", "r", "e", "q", "u", "e", "s", "t">>,
         arg_count |-> Some(1), callback |-> "get_request"],
        [call_name |-> <<"e", "x", "i", "t", "_", "s", "e", "s", "s", "i", "o", "n">>,
         arg_count |-> None, callback |-> "exit_session"],
        [call_name |-> <<"e", "x", "i", "t", "_", "a", "p", "p", "l", "i", "c", "a", "t", "i", "o", "n">>,
         arg_count |-> None, callback |-> "exit_application"],
        [call_name |-> <<"l", "o", "g">>,
         arg_count |-> None, callback |-> "log"],
        [call_name |-> <<"m", "k", "d", "i", "r">>,
         arg_count |-> Some(1), callback |-> "mkdir"]
    >>

DefaultNames == {DefaultHandlers[i].call_name : i \in 1..Len(DefaultHandlers)}

\* the names `registered` keeps track of
AllNames == CallNames \cup DefaultNames

\* inbound    Option of the payload the last recv_max returned (msg)
\* handler    Option of the Handler start() took out of the registry for it
\* result     Option of the Result the callback returned: [ok, value]
\* registered for each name, Option of the descriptor of the last
\*            register call made under it

\* RequestEngine::new
Init ==
    /\ pc = "setup"
    /\ is_exit = FALSE
    /\ handlers = <<>>
    /\ session = "open"
    /\ ctx = None
    /\ hpc = "run"
    /\ progress_calls = <<>>
    /\ orig_message = <<>>
    /\ is_ok = FALSE
    /\ message = <<>>
    /\ index = 0
    /\ sent = <<>>
    /\ invoked = FALSE
    /\ inbound = None
    /\ handler = None
    /\ result = None
    /\ registered = [n \in AllNames |-> None]

\* HashMap::insert that keeps the entry a name already has
insert_keep_first(map, name, handler_) ==
    [n \in (DOMAIN map) \cup {name} |-> IF n \in DOMAIN map THEN map[n] ELSE handler_]

\* HashMap::insert of a Handler under its name
insert(map, name, handler_) ==
    [n \in (DOMAIN map) \cup {name} |-> IF n = name THEN handler_ ELSE map[n]]

\* RequestEngine::register
Register(name, arg_count, callback) ==
    /\ pc = "setup"
    /\ LET h == [call_name |-> name, arg_count |-> arg_count, callback |-> callback]
       IN  /\ handlers' = insert(handlers, name, h)
           /\ registered' = [registered EXCEPT ![name] = Some(h)]
    /\ UNCHANGED <<pc, is_exit, session, ctx, hpc, progress_calls,
                   orig_message, is_ok, message, index, sent, invoked,
                   inbound, handler, result>>

\* the register calls of a list of descriptors, one after the other
RECURSIVE register_all(_, _)
register_all(map, hs) ==
    IF hs = <<>> THEN map
    ELSE register_all(insert(map, Head(hs).call_name, Head(hs)), Tail(hs))

\* RequestEngine::register_defaults
RegisterDefaults ==
    /\ pc = "setup"
    /\ handlers' = register_all(handlers, DefaultHandlers)
    /\ registered' =
          [n \in AllNames |->
              IF n \in DefaultNames
              THEN Some(CHOOSE h \in {DefaultHandlers[i] : i \in 1..Len(DefaultHandlers)} :
                            h.call_name = n)
              ELSE registered[n]]
    /\ UNCHANGED <<pc, is_exit, session, ctx, hpc, progress_calls,
                   orig_message, is_ok, message, index, sent, invoked,
                   inbound, handler, result>>

\* entry of RequestEngine::start
Start ==
    /\ pc = "setup"
    /\ pc' = "listening"
    /\ UNCHANGED <<is_exit, handlers, session, ctx, hpc, progress_calls,
                   orig_message, is_ok, message, index, sent, invoked,
                   inbound, handler, result, registered>>

\* MessageContext::build
build(m) ==
    [id |-> m.id, call_name |-> m.call_name, arguments |-> m.arguments,
     is_shutdown |-> FALSE]

\* CanRecv of a loop that also receives while a response is being sent
CanRecv_while_responding == pc \in {"listening", "responding"} /\ ~is_exit

\* the loop test and the blocking recv_max: the loop is at its top
CanRecv == pc = "listening" /\ ~is_exit

\* entry of return_result: escape, trim, index = 0
return_result(orig, ok) ==
    /\ orig_message' = orig
    /\ is_ok' = ok
    /\ message' = escaped(orig)
    /\ index' = 0
    /\ pc' = "responding"

\* the locals of the previous return_result are gone by the next iteration
forget_locals ==
    /\ orig_message' = <<>>
    /\ is_ok' = FALSE
    /\ message' = <<>>
    /\ index' = 0

return_ok(msg) == return_result(msg, TRUE)

\* return_error that passes the ok flag of return_ok
return_error_as_ok(msg) == return_result(msg, TRUE)

return_error(msg) == return_result(msg, FALSE)

\* serde_json::from_str::<Message>(&msg)
from_str(p) == IF p.kind = "message" THEN Some(p.message) ELSE None

\* &msg[0..299] of the log text: out of a payload longer than 300 bytes the
\* slice panics unless byte 299 starts a character
truncate_panics(p) == p.len > TruncateLimit /\ ~p.is_char_boundary

\* a payload that does not deserialize: logged, continue
RecvMalformed(p) ==
    /\ CanRecv
    /\ from_str(p) = None
    /\ ~truncate_panics(p)
    /\ inbound' = Some(p)
    /\ ctx' = None
    /\ handler' = None
    /\ result' = None
    /\ sent' = <<>>
    /\ invoked' = FALSE
    /\ forget_locals
    /\ progress_calls' = <<>>
    /\ UNCHANGED <<pc, is_exit, handlers, session, hpc, registered>>

\* a payload that does not deserialize and whose log text cannot be cut
RecvMalformedPanic(p) ==
    /\ CanRecv
    /\ from_str(p) = None
    /\ truncate_panics(p)
    /\ inbound' = Some(p)
    /\ ctx' = None
    /\ handler' = None
    /\ result' = None
    /\ sent' = <<>>
    /\ invoked' = FALSE
    /\ forget_locals
    /\ progress_calls' = <<>>
    /\ pc' = "panicked"
    /\ UNCHANGED <<is_exit, handlers, session, hpc, registered>>

\* no handler under the call name: logged, next iteration
RecvUnknown(m) ==
    /\ CanRecv
    /\ m.call_name \notin DOMAIN handlers
    /\ inbound' = Some(payload_of(m))
    /\ ctx' = None
    /\ handler' = None
    /\ result' = None
    /\ sent' = <<>>
    /\ invoked' = FALSE
    /\ forget_locals
    /\ progress_calls' = <<>>
    /\ UNCHANGED <<pc, is_exit, handlers, session, hpc, registered>>

\* the argument-count validation of start: "ok", "none" or "incorrect"
validate(handler_, arguments) ==
    IF handler_.arg_count = None THEN "ok"
    ELSE IF arguments = None THEN "none"
    ELSE IF Len(arguments[1]) # handler_.arg_count[1] THEN "incorrect"
    ELSE "ok"

\* arguments present but of the wrong length
RecvIncorrectArgs(m) ==
    /\ CanRecv
    /\ m.call_name \in DOMAIN handlers
    /\ validate(handlers[m.call_name], m.arguments) = "incorrect"
    /\ inbound' = Some(payload_of(m))
    /\ ctx' = Some(build(m))
    /\ handler' = Some(handlers[m.call_name])
    /\ result' = None
    /\ sent' = <<>>
    /\ invoked' = FALSE
    /\ return_error(IncorrectArgs(m.call_name))
    /\ progress_calls' = <<>>
    /\ UNCHANGED <<is_exit, handlers, session, hpc, registered>>

\* arguments absent although a count is expected
RecvNoArgs(m) ==
    /\ CanRecv
    /\ m.call_name \in DOMAIN handlers
    /\ validate(handlers[m.call_name], m.arguments) = "none"
    /\ inbound' = Some(payload_of(m))
    /\ ctx' = Some(build(m))
    /\ handler' = Some(handlers[m.call_name])
    /\ result' = None
    /\ sent' = <<>>
    /\ invoked' = FALSE
    /\ return_error(NoArgs(m.call_name))
    /\ progress_calls' = <<>>
    /\ UNCHANGED <<is_exit, handlers, session, hpc, registered>>

\* validation passed: the callback is entered
RecvDispatch(m) ==
    /\ CanRecv
    /\ m.call_name \in DOMAIN handlers
    /\ validate(handlers[m.call_name], m.arguments) = "ok"
    /\ inbound' = Some(payload_of(m))
    /\ ctx' = Some(build(m))
    /\ handler' = Some(handlers[m.call_name])
    /\ result' = None
    /\ sent' = <<>>
    /\ invoked' = TRUE
    /\ pc' = "executing"
    /\ hpc' = "run"
    /\ progress_calls' = <<>>
    /\ forget_locals
    /\ UNCHANGED <<is_exit, handlers, session, registered>>

-----------------------------------------------------------------------------
(* The callback: any sequence of send_progress and shutdown calls, then a   *)
(* returned Result                                                          *)

InCallback == pc = "executing" /\ hpc = "run"

\* send_progress that puts its envelope ahead of what was sent before
send_progress_ahead(progress) ==
    sent' = <<StringResponse("progress", trim(cleaned_message(progress_to_json(progress))), FALSE)>>
            \o sent

\* MessageContext::send_progress
send_progress(progress) ==
    sent' = Append(sent,
        StringResponse("progress", trim(cleaned_message(progress_to_json(progress))), FALSE))

HandlerSendProgress(raw) ==
    /\ InCallback
    /\ Len(progress_calls) < MaxProgress
    /\ LET progress == Progress_new(ProgressTitle, ProgressInfo, raw)
       IN  /\ progress_calls' = Append(progress_calls, progress)
           /\ send_progress(progress)
    /\ UNCHANGED <<pc, is_exit, handlers, session, ctx, hpc,
                   orig_message, is_ok, message, index, invoked,
                   inbound, handler, result, registered>>

\* a Progress built as a struct literal: its fields are pub, nothing clamps
HandlerSendLiteral(title, raw) ==
    /\ InCallback
    /\ Len(progress_calls) < MaxProgress
    /\ LET progress == [title |-> title, info |-> ProgressInfo, progress |-> raw]
       IN  /\ progress_calls' = Append(progress_calls, progress)
           /\ send_progress(progress)
    /\ UNCHANGED <<pc, is_exit, handlers, session, ctx, hpc,
                   orig_message, is_ok, message, index, invoked,
                   inbound, handler, result, registered>>

\* MessageContext::shutdown, first statement: session.exit()
ShutdownExit ==
    /\ InCallback
    /\ session' = IF session = "open" THEN "closing" ELSE session
    /\ hpc' = "wait_for_exit"
    /\ UNCHANGED <<pc, is_exit, handlers, ctx, progress_calls,
                   orig_message, is_ok, message, index, sent, invoked,
                   inbound, handler, result, registered>>

\* the transport finishes its teardown
SessionClosed ==
    /\ session = "closing"
    /\ session' = "closed"
    /\ UNCHANGED <<pc, is_exit, handlers, ctx, hpc, progress_calls,
                   orig_message, is_ok, message, index, sent, invoked,
                   inbound, handler, result, registered>>

\* ShutdownWaitForExit that does not wait for the teardown
ShutdownWaitForExit_no_wait ==
    /\ pc = "executing" /\ hpc = "wait_for_exit"
    /\ hpc' = "mark"
    /\ UNCHANGED <<pc, is_exit, handlers, session, ctx, progress_calls,
                   orig_message, is_ok, message, index, sent, invoked,
                   inbound, handler, result, registered>>

\* second statement: session.wait_for_exit() returns once teardown is done
ShutdownWaitForExit ==
    /\ pc = "executing" /\ hpc = "wait_for_exit"
    /\ session = "closed"
    /\ hpc' = "mark"
    /\ UNCHANGED <<pc, is_exit, handlers, session, ctx, progress_calls,
                   orig_message, is_ok, message, index, sent, invoked,
                   inbound, handler, result, registered>>

\* third statement: self.is_shutdown = true
ShutdownMark ==
    /\ pc = "executing" /\ hpc = "mark"
    /\ ctx' = Some([ctx[1] EXCEPT !.is_shutdown = TRUE])
    /\ hpc' = "run"
    /\ UNCHANGED <<pc, is_exit, handlers, session, progress_calls,
                   orig_message, is_ok, message, index, sent, invoked,
                   inbound, handler, result, registered>>

\* is_shutdown of a loop that never sees the flag
is_shutdown_dropped == FALSE

\* is_shutdown of a loop that reads the flag inverted
is_shutdown_inverted == ~ctx[1].is_shutdown

\* MessageContext::is_shutdown, as start reads it after the callback
is_shutdown == ctx[1].is_shutdown

\* the callback returns and the context signalled a shutdown: start returns
HandlerReturnShutdown(ok, res) ==
    /\ InCallback
    /\ is_shutdown
    /\ result' = Some([ok |-> ok, value |-> res])
    /\ pc' = "returned"
    /\ UNCHANGED <<is_exit, handlers, session, ctx, hpc, progress_calls,
                   orig_message, is_ok, message, index, sent, invoked,
                   inbound, handler, registered>>

\* the callback returns Ok(res) or Err(res): return_ok / return_error
HandlerReturn(ok, res) ==
    /\ InCallback
    /\ ~is_shutdown
    /\ result' = Some([ok |-> ok, value |-> res])
    /\ IF ok THEN return_ok(res) ELSE return_error(res)
    /\ UNCHANGED <<is_exit, handlers, session, ctx, hpc, progress_calls, sent, invoked,
                   inbound, handler, registered>>

-----------------------------------------------------------------------------
(* The closures of register_defaults *)

\* how many leading arguments the closure registered under a default name
\* reads: it unwraps context.arguments and indexes args[0] .. args[n - 1]
args_read(callback) ==
    CASE callback \in {"download_file", "write_file", "unzip"} -> 2
      [] callback \in {"read_file", "delete_file", "get_md5", "file_exists",
                       "dir_exists", "list_all_files", "list_dir", "get_request",
                       "log", "mkdir"} -> 1
      [] OTHER -> 0

\* the argument list of the context has every argument the running closure reads
has_read_arguments ==
    LET n == args_read(handler[1].callback)
    IN  n = 0 \/ (ctx[1].arguments # None /\ Len(ctx[1].arguments[1]) >= n)

\* arguments.as_ref().unwrap() on None, or args[i] past the end: the
\* closure panics and the thread unwinds out of start()
DefaultHandlerPanic ==
    /\ InCallback
    /\ ~has_read_arguments
    /\ pc' = "panicked"
    /\ UNCHANGED <<is_exit, handlers, session, ctx, hpc, progress_calls,
                   orig_message, is_ok, message, index, sent, invoked,
                   inbound, handler, result, registered>>

\* a closure that read its arguments returns the outcome of its operation
DefaultHandlerReturn(ok, res) ==
    /\ InCallback
    /\ handler[1].callback \notin {"exit_session", "exit_application"}
    /\ has_read_arguments
    /\ HandlerReturn(ok, res)

SessionShouldBeClosed ==
    <<"s", "e", "s", "s", "i", "o", "n", " ", "s", "h", "o", "u", "l", "d", " ", "b", "e", " ", "c", "l", "o", "s", "e", "d", ",", " ", "s", "o", " ", "t", "h", "i", "s", " ", "w", "i", "l", "l", " ", "n", "e", "v", "e", "r", " ", "b", "e", " ", "s", "e", "n", "t">>

\* exit_session: context.shutdown() ...
ExitSessionShutdown ==
    /\ InCallback
    /\ handler[1].callback = "exit_session"
    /\ ~is_shutdown
    /\ ShutdownExit

\* ... then Ok(..), which start() drops
ExitSessionReturn ==
    /\ InCallback
    /\ handler[1].callback = "exit_session"
    /\ HandlerReturnShutdown(TRUE, SessionShouldBeClosed)

-----------------------------------------------------------------------------
(* The chunk loop of return_result *)

total_length == Len(message)

\* SendChunk that goes on from the first candidate boundary
SendChunk_from_candidate ==
    /\ pc = "responding"
    /\ index < total_length
    /\ LET r == chunk_end(message, index)
       IN  /\ ~r.panic
           /\ sent' = Append(sent,
                  OkOrErrorResponse(ctx[1].id, is_ok,
                      SubSeq(message, index + 1, r.end_index),
                      r.end_index < total_length))
           /\ index' = candidate_end(message, index)
    /\ UNCHANGED <<pc, is_exit, handlers, session, ctx, hpc, progress_calls,
                   orig_message, is_ok, message, invoked,
                   inbound, handler, result, registered>>

\* one iteration of the outer while: the slice is sent
SendChunk ==
    /\ pc = "responding"
    /\ index < total_length
    /\ LET r == chunk_end(message, index)
       IN  /\ ~r.panic
           /\ sent' = Append(sent,
                  OkOrErrorResponse(ctx[1].id, is_ok,
                      SubSeq(message, index + 1, r.end_index),
                      r.end_index < total_length))
           /\ index' = r.end_index
    /\ UNCHANGED <<pc, is_exit, handlers, session, ctx, hpc, progress_calls,
                   orig_message, is_ok, message, invoked,
                   inbound, handler, result, registered>>

\* one iteration of the outer while: the boundary extension panics
ChunkPanic ==
    /\ pc = "responding"
    /\ index < total_length
    /\ chunk_end(message, index).panic
    /\ pc' = "panicked"
    /\ UNCHANGED <<is_exit, handlers, session, ctx, hpc, progress_calls,
                   orig_message, is_ok, message, index, sent, invoked,
                   inbound, handler, result, registered>>

\* index >= total_length: return_result returns, the loop of start goes on
ReturnResultDone ==
    /\ pc = "responding"
    /\ ~(index < total_length)
    /\ pc' = "listening"
    /\ UNCHANGED <<is_exit, handlers, session, ctx, hpc, progress_calls,
                   orig_message, is_ok, message, index, sent, invoked,
                   inbound, handler, result, registered>>

-----------------------------------------------------------------------------
(* Specifications *)

Next ==
    \/ \E n \in CallNames, c \in ArgCounts, h \in Callbacks : Register(n, c, h)
    \/ Start
    \/ \E p \in MalformedPayloads : RecvMalformed(p)
    \/ \E p \in MalformedPayloads : RecvMalformedPanic(p)
    \/ \E m \in Messages : RecvUnknown(m)
    \/ \E m \in Messages : RecvIncorrectArgs(m)
    \/ \E m \in Messages : RecvNoArgs(m)
    \/ \E m \in Messages : RecvDispatch(m)
    \/ \E raw \in RawFractions : HandlerSendProgress(raw)
    \/ ShutdownExit
    \/ SessionClosed
    \/ ShutdownWaitForExit
    \/ ShutdownMark
    \/ \E ok \in BOOLEAN, res \in ResultStrings : HandlerReturnShutdown(ok, res)
    \/ \E ok \in BOOLEAN, res \in ResultStrings : HandlerReturn(ok, res)
    \/ SendChunk
    \/ ChunkPanic
    \/ ReturnResultDone

\* the engine: registrations, then start()
Spec == Init /\ [][Next]_vars

\* characters of the results the encoder specification enumerates
EncAlphabet == {"a", BS, DQ, SP, TAB, CR}

\* lengths of the plain prefix put before a tail: none, or one that brings
\* the tail onto the first chunk boundary
PadLens == {0} \cup ((CHUNK_SIZE - MaxLen - 1)..(CHUNK_SIZE - 1))

EncStrings ==
    {Repeat("a", n) \o t : n \in PadLens, t \in SeqsUpTo(EncAlphabet, MaxLen)}

\* return_result entered with any result string, inside a dispatched call
EncInit ==
    /\ pc = "responding"
    /\ is_exit = FALSE
    /\ handlers = insert(<<>>, Echo, [call_name |-> Echo, arg_count |-> None, callback |-> "h1"])
    /\ session = "open"
    /\ ctx = Some(build([id |-> "1", call_name |-> Echo, arguments |-> None]))
    /\ hpc = "run"
    /\ progress_calls = <<>>
    /\ orig_message \in EncStrings
    /\ is_ok \in BOOLEAN
    /\ message = escaped(orig_message)
    /\ index = 0
    /\ sent = <<>>
    /\ invoked = TRUE
    /\ inbound = Some(payload_of([id |-> "1", call_name |-> Echo, arguments |-> None]))
    /\ handler = Some(handlers[Echo])
    /\ result = Some([ok |-> is_ok, value |-> orig_message])
    /\ registered = [n \in AllNames |-> IF n = Echo THEN Some(handlers[Echo]) ELSE None]

EncNext ==
    \/ SendChunk
    \/ ChunkPanic
    \/ ReturnResultDone

\* the response encoder alone, over every result string up to MaxLen
SpecEnc == EncInit /\ [][EncNext]_vars

\* characters of the results the single-call specification enumerates
EscAlphabet == {"a", BS, DQ, SP, TAB, CR, NUL}

EscResults == SeqsUpTo(EscAlphabet, MaxEsc) \cup {EndsInQuote}

\* raw fractions below 0.0 and above 1.0 (hundredths of -0.5 and of 50)
CallRaws == {-50, 5000}

\* a title that serde_json has to escape
SpecialTitle == <<DQ, BS>>

\* the callback of one dispatched echo call is entered
CallInit ==
    /\ pc = "executing"
    /\ is_exit = FALSE
    /\ handlers = insert(<<>>, Echo, [call_name |-> Echo, arg_count |-> None, callback |-> "h1"])
    /\ session = "open"
    /\ ctx = Some(build([id |-> "1", call_name |-> Echo, arguments |-> None]))
    /\ hpc = "run"
    /\ progress_calls = <<>>
    /\ orig_message = <<>>
    /\ is_ok = FALSE
    /\ message = <<>>
    /\ index = 0
    /\ sent = <<>>
    /\ invoked = TRUE
    /\ inbound = Some(payload_of([id |-> "1", call_name |-> Echo, arguments |-> None]))
    /\ handler = Some(handlers[Echo])
    /\ result = None
    /\ registered = [n \in AllNames |-> IF n = Echo THEN Some(handlers[Echo]) ELSE None]

CallNext ==
    \/ \E raw \in CallRaws : HandlerSendProgress(raw)
    \/ \E raw \in CallRaws : HandlerSendLiteral(SpecialTitle, raw)
    \/ \E res \in EscResults : HandlerReturn(TRUE, res)
    \/ SendChunk
    \/ ChunkPanic
    \/ ReturnResultDone

\* one call: progress values of any construction, then any short result
SpecCall == CallInit /\ [][CallNext]_vars

\* names, closures and messages of the registration specification
RegNames == {Echo, Ping}

RegCallbacks == {"h1", "h2"}

RegMessages == [id : {"1"}, call_name : RegNames, arguments : Arguments]

RegNext ==
    \/ \E n \in RegNames, c \in ArgCounts, h \in RegCallbacks : Register(n, c, h)
    \/ RegisterDefaults
    \/ Start
    \/ \E m \in RegMessages : RecvUnknown(m)
    \/ \E m \in RegMessages : RecvIncorrectArgs(m)
    \/ \E m \in RegMessages : RecvNoArgs(m)
    \/ \E m \in RegMessages : RecvDispatch(m)
    \/ HandlerReturn(TRUE, Hi)
    \/ SendChunk
    \/ ReturnResultDone

\* any sequence of register and register_defaults calls, then start() with
\* handlers that answer "hi"
SpecReg == Init /\ [][RegNext]_vars

\* messages naming every default call, with every argument list
DefaultMessages == [id : {"1"}, call_name : DefaultNames, arguments : Arguments]

DefaultsNext ==
    \/ RegisterDefaults
    \/ Start
    \/ \E m \in DefaultMessages : RecvUnknown(m)
    \/ \E m \in DefaultMessages : RecvIncorrectArgs(m)
    \/ \E m \in DefaultMessages : RecvNoArgs(m)
    \/ \E m \in DefaultMessages : RecvDispatch(m)
    \/ DefaultHandlerPanic
    \/ \E ok \in BOOLEAN : DefaultHandlerReturn(ok, Hi)
    \/ ExitSessionShutdown
    \/ SessionClosed
    \/ ShutdownWaitForExit
    \/ ShutdownMark
    \/ ExitSessionReturn
    \/ SendChunk
    \/ ReturnResultDone

\* an engine with the default handlers, running their own closures
SpecDefaults == Init /\ [][DefaultsNext]_vars

TypeOK ==
    /\ pc \in {"setup", "listening", "executing", "responding", "returned", "panicked"}
    /\ is_exit \in BOOLEAN
    /\ session \in {"open", "closing", "closed"}
    /\ hpc \in {"run", "wait_for_exit", "mark"}
    /\ index \in 0..(Len(message) + 1)

-----------------------------------------------------------------------------
(* Observations used by the properties *)

IsResult(e) == e.kind = "result"

IsProgress(e) == e.kind = "progress"

\* the result envelopes sent since the last receive, in send order
results == SelectSeq(sent, IsResult)

\* the message fields of a sequence of envelopes, concatenated
messages_of(envs) == Concat([i \in 1..Len(envs) |-> envs[i].message])

\* the decoding a front-end applies: backslash-x stands for x
RECURSIVE unescape(_)
unescape(s) ==
    IF s = <<>> THEN <<>>
    ELSE IF Head(s) = BS /\ Len(s) >= 2 THEN <<s[2]>> \o unescape(Tail(Tail(s)))
    ELSE <<Head(s)>> \o unescape(Tail(s))

\* no backslash of s is left without the character it escapes
RECURSIVE well_formed(_)
well_formed(s) ==
    IF s = <<>> THEN TRUE
    ELSE IF Head(s) = BS THEN Len(s) >= 2 /\ well_formed(Tail(Tail(s)))
    ELSE well_formed(Tail(s))

RECURSIVE Count(_, _)
Count(s, c) ==
    IF s = <<>> THEN 0 ELSE (IF Head(s) = c THEN 1 ELSE 0) + Count(Tail(s), c)

\* the reference escaping of one character
reference_char(c) ==
    CASE c = CR  -> <<>>
      [] c = NUL -> <<>>
      [] c = TAB -> <<SP, SP, SP, SP>>
      [] c = BS  -> <<BS, BS>>
      [] c = DQ  -> <<BS, DQ>>
      [] OTHER   -> <<c>>

\* the reference mapping: each character once, then the whole trimmed
reference(s) == trim(Concat([i \in 1..Len(s) |-> reference_char(s[i])]))

IsPrefix(s, t) == Len(s) <= Len(t) /\ SubSeq(t, 1, Len(s)) = s

\* a call was accepted and return_result is no longer running for it
ResponseOver == ctx # None /\ pc \in {"listening", "panicked"}

\* the last received message failed the argument-count validation
ArgsRejected ==
    /\ ctx # None
    /\ ctx[1].call_name \in DOMAIN handlers
    /\ validate(handlers[ctx[1].call_name], ctx[1].arguments) # "ok"

-----------------------------------------------------------------------------
(* Properties *)

\* C1: a handler registered with an expected argument count is invoked only
\* when the arguments are present and of that length; otherwise it is not
\* invoked and the engine answers with ok=false envelopes carrying the
\* request's id, whose message is the "Incorrect number of arguments" text
\* when the length differs.
C1_ArgCountEnforced ==
    ctx # None =>
        /\ invoked => ~ArgsRejected
        /\ (ArgsRejected /\ pc # "responding") =>
              /\ ~invoked
              /\ results # <<>>
              /\ \A i \in 1..Len(results) :
                    results[i].id = ctx[1].id /\ ~results[i].ok
              /\ validate(handlers[ctx[1].call_name], ctx[1].arguments) = "incorrect"
                    => messages_of(results) = escaped(IncorrectArgs(ctx[1].call_name))

\* C2: once return_result is over for a result string, the messages of the
\* envelopes it sent, concatenated in send order and unescaped, are that string.
C2_RoundTrip ==
    ResponseOver => unescape(messages_of(results)) = orig_message

\* C3: every chunk's message taken alone is well formed: no chunk ends in a
\* backslash whose partner starts the next chunk.
C3_NoSplitEscape ==
    \A i \in 1..Len(results) : well_formed(results[i].message)

\* C4: when the handler was invoked and returned without shutdown, the call
\* has exactly one finalization once the loop listens again: a non-empty
\* sequence of result envelopes, the last and only the last with more=false.
C4_OneFinalization ==
    (pc = "listening" /\ ctx # None /\ invoked) =>
        /\ results # <<>>
        /\ \A i \in 1..Len(results) : results[i].more = (i < Len(results))

\* C5: in the sequence of envelopes return_result sent for one response,
\* more is true on every envelope but the last and false on the last.
C5_MoreOnAllButLast ==
    ResponseOver =>
        \A i \in 1..Len(results) : results[i].more = (i < Len(results))

\* C6 as stated: no result envelope carries more than CHUNK_SIZE characters.
C6_AtMostChunkSize ==
    \A i \in 1..Len(results) : Len(results[i].message) <= CHUNK_SIZE

\* C6 amended: a result envelope carries at most CHUNK_SIZE characters plus
\* one per backslash among its first CHUNK_SIZE characters, and more than
\* CHUNK_SIZE only when the last or second to last of those is a backslash.
C6_ChunkSizeUpToExtension ==
    \A i \in 1..Len(results) :
        LET m == results[i].message
        IN  /\ Len(m) <= CHUNK_SIZE + Count(SubSeq(m, 1, min(Len(m), CHUNK_SIZE)), BS)
            /\ Len(m) > CHUNK_SIZE => (m[CHUNK_SIZE] = BS \/ m[CHUNK_SIZE - 1] = BS)

\* C6 witness: an envelope longer than CHUNK_SIZE was sent
C6_ExtendedChunkSent ==
    \E i \in 1..Len(results) : Len(results[i].message) > CHUNK_SIZE

\* C7 as stated: once shutdown() has marked the context, nothing more is
\* handed to the transport.
C7_NoEnvelopeAfterShutdown ==
    [][(ctx # None /\ ctx[1].is_shutdown) => sent' = sent]_vars

\* C7 amended: once shutdown() has marked the context, the callback is still
\* running or start() has returned, and no result envelope exists for the
\* call: the returned value was never encoded.
C7_ShutdownDiscardsResult ==
    (ctx # None /\ ctx[1].is_shutdown) =>
        /\ pc \in {"executing", "returned"}
        /\ results = <<>>
        /\ orig_message = <<>> /\ message = <<>> /\ index = 0

\* C7 witness: start() has returned after a callback that called shutdown()
C7_ReturnedAfterShutdown ==
    pc = "returned" /\ ctx # None /\ ctx[1].is_shutdown

\* C8: start() has returned only if the callback of the current iteration
\* called shutdown(); the engine's is_exit flag is never set.
C8_ReturnsOnlyOnShutdown ==
    /\ ~is_exit
    /\ pc = "returned" => (ctx # None /\ ctx[1].is_shutdown /\ invoked)

\* C8 witness: start() has returned, with progress sent before
C8_Returned ==
    pc = "returned" /\ sent # <<>>

\* C9: the progress envelopes of a call are on the transport in the order of
\* the send_progress calls, and none follows a result envelope of the call.
C9_ProgressBeforeResult ==
    /\ \A i \in 1..Len(sent), j \in 1..Len(sent) :
          (i < j /\ IsResult(sent[i])) => IsResult(sent[j])
    /\ LET ps == SelectSeq(sent, IsProgress)
       IN  /\ Len(ps) = Len(progress_calls)
           /\ \A k \in 1..Len(ps) :
                 /\ ps[k].id = "progress" /\ ~ps[k].more
                 /\ ps[k].message = escaped(progress_to_json(progress_calls[k]))

\* C9 witness: progress 0.25, progress 0.75, then the ok result
C9_TwoProgressThenOk ==
    /\ pc = "listening"
    /\ Len(sent) = 3
    /\ IsProgress(sent[1]) /\ IsProgress(sent[2]) /\ IsResult(sent[3])
    /\ progress_calls[1].progress = 25 /\ progress_calls[2].progress = 75
    /\ sent[3].ok /\ sent[3].message = Hi

\* a step that keeps the call of the context and only adds to the transport
SameCallStep ==
    /\ ctx' # None
    /\ ctx'[1].id = ctx[1].id
    /\ ctx'[1].call_name = ctx[1].call_name
    /\ ctx'[1].arguments = ctx[1].arguments
    /\ IsPrefix(sent, sent')

\* C10: while a call is in flight (its callback runs or its response is being
\* sent) no other message is received: the context stays that of the call
\* and the transport only gains envelopes; every result envelope sent since
\* the last receive carries the id of that one call.
C10_OneCallInFlight ==
    [](\A i \in 1..Len(results) : ctx # None /\ results[i].id = ctx[1].id)
    /\ [][(pc \in {"executing", "responding"}) => SameCallStep]_vars

\* C10 witness: between two chunks of one response
C10_MidResponse ==
    pc = "responding" /\ 0 < index /\ index < total_length

\* the last received payload did not deserialize, or names a call that has
\* no registered handler
NotDispatchable ==
    /\ inbound # None
    /\ \/ from_str(inbound[1]) = None
       \/ from_str(inbound[1])[1].call_name \notin DOMAIN handlers

\* C11: after a payload that does not deserialize into a Message, or that
\* names a call with no registered handler, no envelope has been sent, no
\* handler has been invoked, and the loop is listening for the next message.
C11_NoReplyBackToListening ==
    NotDispatchable => (sent = <<>> /\ ~invoked /\ ctx = None /\ pc = "listening")

\* C12: no received payload and no handler result brings the engine into
\* the aborted state, where the loop has stopped without a shutdown.
C12_LoopSurvives ==
    pc # "panicked"

\* C13: the registry holds, for each call name, exactly the descriptor of
\* the last registration made under that name (by register or by
\* register_defaults); the handler taken for a message is that descriptor,
\* the message is validated against it and its callback is the one invoked;
\* before start() every registration is possible.
C13_LastRegistrationWins ==
    /\ DOMAIN handlers = {n \in AllNames : registered[n] # None}
    /\ \A n \in DOMAIN handlers : handlers[n] = registered[n][1]
    /\ handler # None =>
          /\ ctx # None
          /\ handler[1] = registered[ctx[1].call_name][1]
          /\ invoked = (validate(registered[ctx[1].call_name][1], ctx[1].arguments) = "ok")
    /\ pc = "setup" =>
          \A n \in RegNames, c \in ArgCounts, h \in RegCallbacks : ENABLED Register(n, c, h)

\* C13 witness: ping was registered by register_defaults and then again by
\* register with another count and closure; a ping message with one
\* argument is dispatched to that closure
C13_DefaultReplaced ==
    /\ pc = "executing"
    /\ DefaultNames \subseteq DOMAIN handlers
    /\ ctx[1].call_name = Ping /\ ctx[1].arguments = Some(<<Hi>>)
    /\ handler[1].callback = "h2" /\ handler[1].arg_count = Some(1)

\* C14: once return_result is over for a handler result whose escaped,
\* trimmed form is non-empty and at most CHUNK_SIZE characters long, exactly
\* one result envelope was sent: it has the request's id, the handler's ok
\* flag, more=false, and the escaped form as its message.
C14_SingleEnvelope ==
    (ResponseOver /\ invoked /\ result # None
        /\ escaped(result[1].value) # <<>>
        /\ Len(escaped(result[1].value)) <= CHUNK_SIZE)
    => results = <<OkOrErrorResponse(ctx[1].id, result[1].ok,
                                     escaped(result[1].value), FALSE)>>

\* C15: every Progress value passed to send_progress has its progress
\* field within [0.0, 1.0] (0..100 hundredths), however it was constructed.
C15_ProgressInUnitRange ==
    \A k \in 1..Len(progress_calls) :
        0 <= progress_calls[k].progress /\ progress_calls[k].progress <= 100

\* C16: the chunks return_result has sent so far are contiguous slices of
\* the escaped, trimmed string, in order and without gap or overlap: their
\* messages concatenated are its first `index` characters, and when
\* return_result has run to completion they are the whole string.
C16_ChunksCoverString ==
    /\ pc = "responding" =>
          /\ index <= total_length
          /\ messages_of(results) = SubSeq(message, 1, index)
    /\ pc = "listening" =>
          /\ message = escaped(orig_message)
          /\ messages_of(results) = message
    /\ \A i \in 1..Len(results) : results[i].message # <<>>

\* C16 witness: return_result ran to completion and the boundary of its
\* first chunk was extended
C16_CompletedExtended ==
    /\ pc = "listening"
    /\ Len(results) >= 2
    /\ Len(results[1].message) > CHUNK_SIZE

\* C17: the string return_result cuts into chunks is the reference mapping
\* of the handler's result (each character mapped once: CR and NUL dropped,
\* tab to four spaces, backslash doubled, quote to backslash-quote, the rest
\* unchanged; then trimmed), and the message of every progress envelope is
\* the reference mapping of the serialized Progress record.
C17_EscapingIsReference ==
    /\ result # None =>
          /\ message = reference(result[1].value)
          /\ Len(message) <= 4 * Len(result[1].value)
    /\ LET ps == SelectSeq(sent, IsProgress)
       IN  /\ Len(ps) = Len(progress_calls)
           /\ \A k \in 1..Len(ps) :
                 ps[k].message = reference(progress_to_json(progress_calls[k]))

\* C17 witness: a progress record whose title holds a quote and a backslash
\* was sent, and the result quote-backslash was escaped
C17_QuoteAndBackslashEscaped ==
    /\ result # None /\ result[1].value = <<DQ, BS>>
    /\ message = <<BS, DQ, BS, BS>>
    /\ progress_calls # <<>> /\ progress_calls[1].title = SpecialTitle

\* C18: every result envelope sent since the last receive carries the id of
\* the inbound message, and all of them carry the same ok flag: true when
\* the handler was invoked and returned Ok, false when it returned Err or
\* when the argument-count validation failed and it was not invoked.
C18_IdAndOkFlag ==
    \A i \in 1..Len(results) :
        /\ inbound # None /\ from_str(inbound[1]) # None
        /\ results[i].id = from_str(inbound[1])[1].id
        /\ results[i].ok = (invoked /\ result # None /\ result[1].ok)

\* C18 witness: the handler returned Err with a result of two chunks, both
\* sent
C18_ErrInTwoChunks ==
    /\ pc = "listening"
    /\ result = Some([ok |-> FALSE, value |-> LongPlain])
    /\ Len(results) = 2

\* a receive builds a context whose shutdown flag is unset
FreshContext ==
    (pc = "listening" /\ ctx' # None /\ inbound' # inbound) => ~ctx'[1].is_shutdown

\* C19: shutdown() signals the transport, waits for its teardown and only
\* then sets the flag: past the first step the transport is no longer open,
\* past the second it is torn down; a set flag implies a torn-down
\* transport, and so does a start() that has returned.  A context built
\* for a received message has the flag unset.
C19_ShutdownOrder ==
    []( /\ hpc = "wait_for_exit" => session # "open"
        /\ hpc = "mark" => session = "closed"
        /\ (ctx # None /\ ctx[1].is_shutdown) => session = "closed"
        /\ pc = "returned" => session = "closed" )
    /\ [][FreshContext]_vars

\* C19 witness: the flag is set and the callback has not returned yet
C19_FlagSetInCallback ==
    pc = "executing" /\ hpc = "run" /\ ctx[1].is_shutdown

\* C20: every slice return_result takes is in range: for the chunk starting
\* at index, the boundary extension neither reads the backward iterator past
\* the start of the slice nor grows end_index past total_length, and
\* index < end_index <= total_length.
C20_SlicesInRange ==
    (pc = "responding" /\ index < total_length) =>
        LET r == chunk_end(message, index)
        IN  ~r.panic /\ index < r.end_index /\ r.end_index <= total_length

\* C21: every default call whose closure reads arguments is registered with
\* an expected argument count covering what it reads, and no default closure
\* is invoked on a context whose argument list is absent or shorter than
\* what it reads.
C21_DefaultsGuardTheirArguments ==
    (invoked /\ handler # None) =>
        /\ args_read(handler[1].callback) > 0 =>
              /\ handler[1].arg_count # None
              /\ handler[1].arg_count[1] >= args_read(handler[1].callback)
        /\ has_read_arguments

====
